---- MODULE Spec2Model ----
(***************************************************************************)
(* Ant foraging simulation (Bevy ECS): foraging state machine, grid-indexed *)
(* marker trails, food / base collision rules and the per-frame schedule.   *)
(*                                                                          *)
(* Numbers.  f32 values are modelled as scaled integers:                    *)
(*   time       centiseconds                  (1 s    = 100)                *)
(*   position   tenths of a pixel             (1 px   = PosScale)           *)
(*   velocity   thousandths                   (1.0    = Unit)               *)
(*   intensity  thousandths                   (100.0  = 100 * Unit)         *)
(* Divisions truncate towards zero (sign-symmetric, like IEEE rounding);    *)
(* floor() is modelled by \div, which rounds towards minus infinity.        *)
(* A NaN vector (normalize() of the zero vector) is the value NaNVec.       *)
(***************************************************************************)
EXTENDS Integers, Sequences, FiniteSets, TLC

(* ------------------------------------------------------------------------ *)
(* Bounds of the model                                                       *)
(* ------------------------------------------------------------------------ *)
\* frames explored from the world setup_simulation builds
MaxTicks == 8
\* frames explored from the world in which food sources carry a quantity
MaxTicksQ == 5
\* frames explored from the world without any food source
MaxTicksWalk == 7
\* frames explored from the world with a single food source of quantity 1
MaxTicksOne == 4
\* frames explored from the world with a single, distant food source
MaxTicksFar == 5
\* frames explored from the world with two food sources in one cell
MaxTicksTwin == 4
\* frames explored after startup for the configurations drawn
MaxTicksStart == 5
\* frames explored from the world in which an ant can step onto a food source
MaxTicksHit == 3
\* frames explored from the world with two initial ants and one unit of food
MaxTicksPair == 4
\* frames explored from the worlds that draw their spawn_rate
MaxTicksRate == 3
\* largest |cell coordinate| drawn for the grid conversion functions
MaxCell == 6

(* ------------------------------------------------------------------------ *)
(* Scales and program constants                                              *)
(* ------------------------------------------------------------------------ *)
Unit == 1000
PosScale == 10
NaNC == 999999
NaNVec == <<NaNC, NaNC>>
None == 0

GRID_CELL_SIZE == 32
INITIAL_INTENSITY == 100
BASE_MARKER_SIZE == 3
ANT_SPEED == 50
DIRECTION_CHANGE_INTERVAL == 150
MAX_INTENSITY == 100
INFLUENCE_STRENGTH == 300
FOOD_COLLISION_THRESHOLD == 10
BASE_COLLISION_THRESHOLD == 10
BASE_BLEND_KEEP == 700
BASE_BLEND_PULL == 300

\* one cell in position units
CellLen == GRID_CELL_SIZE * PosScale

(* ------------------------------------------------------------------------ *)
(* Configuration (config.json), fixed for the run                            *)
(* ------------------------------------------------------------------------ *)
map_size == <<3, 3>>
base_location == <<0, 0>>
food_locations == << <<1, 1>>, <<2, 1>> >>
spawn_rate == 100
marker_spawn_interval == 40
marker_lifetime == 40
initial_ant_count == 1
food_quantity == 2

\* frame times (Time::delta) a frame may have
DeltaSet == {20}
\* headings Ant::new may draw (cos a, sin a)
HeadingSet == { <<1000, 0>>, <<0, 1000>>, <<-1000, 0>>, <<707, -707>> }
\* (sin d, cos d) of the rotations d the random walk may draw from -0.1..0.1
PerturbSet == { <<-50, 999>>, <<0, 1000>>, <<50, 999>> }

(* ------------------------------------------------------------------------ *)
(* Arithmetic helpers                                                        *)
(* ------------------------------------------------------------------------ *)
Abs(a) == IF a < 0 THEN -a ELSE a

Signum(a) == IF a < 0 THEN -1 ELSE 1

TruncDiv(a, b) == IF a >= 0 THEN a \div b ELSE -((-a) \div b)

Min(a, b) == IF a <= b THEN a ELSE b

RECURSIVE SqrtIter(_, _, _)
SqrtIter(n, lo, hi) ==
    IF lo >= hi THEN lo
    ELSE LET mid == (lo + hi + 1) \div 2
         IN  IF mid * mid <= n THEN SqrtIter(n, mid, hi)
                               ELSE SqrtIter(n, lo, mid - 1)

ISqrt(n) == SqrtIter(n, 0, 46340)

IsNaN(v) == v[1] = NaNC

\* Vec2 arithmetic
VAdd(a, b) == IF IsNaN(a) \/ IsNaN(b) THEN NaNVec ELSE <<a[1] + b[1], a[2] + b[2]>>

VSub(a, b) == IF IsNaN(a) \/ IsNaN(b) THEN NaNVec ELSE <<a[1] - b[1], a[2] - b[2]>>

VNeg(a) == IF IsNaN(a) THEN NaNVec ELSE <<-a[1], -a[2]>>

\* 16 * |v|
Len16(v) == ISqrt((v[1] * v[1] + v[2] * v[2]) * 256)

\* Vec2::length() > r, for r in the units of v (callers test IsNaN)
LengthAbove(v, r) == v[1] * v[1] + v[2] * v[2] > r * r

\* Vec2::normalize: v * (1 / |v|); the zero vector gives NaN
Normalize(v) ==
    IF IsNaN(v) THEN NaNVec
    ELSE IF v = <<0, 0>> THEN NaNVec
    ELSE LET l == Len16(v)
         IN  <<TruncDiv(v[1] * Unit * 16, l), TruncDiv(v[2] * Unit * 16, l)>>

\* a.distance(b) < r, with r in pixels: false when either is NaN
DistanceBelow(a, b, r) ==
    /\ ~IsNaN(a)
    /\ ~IsNaN(b)
    /\ (a[1] - b[1]) * (a[1] - b[1]) + (a[2] - b[2]) * (a[2] - b[2])
          < (r * PosScale) * (r * PosScale)

\* squared distance, for comparing distances between finite points
Dist2(a, b) == (a[1] - b[1]) * (a[1] - b[1]) + (a[2] - b[2]) * (a[2] - b[2])

(* ------------------------------------------------------------------------ *)
(* marker.rs: grid conversions and front cells                               *)
(* ------------------------------------------------------------------------ *)
\* `as i32` of a float: NaN becomes 0
FloorCell(p) == p \div CellLen

\* the cast without the floor(): truncation towards zero
world_to_grid_trunc(pos) ==
    IF IsNaN(pos) THEN <<0, 0>>
    ELSE <<TruncDiv(pos[1], CellLen), TruncDiv(pos[2], CellLen)>>

world_to_grid(pos) ==
    IF IsNaN(pos) THEN <<0, 0>>
    ELSE <<FloorCell(pos[1]), FloorCell(pos[2])>>

grid_to_world(cell) ==
    <<cell[1] * CellLen + CellLen \div 2, cell[2] * CellLen + CellLen \div 2>>

\* the 3x3 block, dx outer loop, dy inner loop
Block3(c) ==
    << <<c[1] - 1, c[2] - 1>>, <<c[1] - 1, c[2]>>, <<c[1] - 1, c[2] + 1>>,
       <<c[1],     c[2] - 1>>, <<c[1],     c[2]>>, <<c[1],     c[2] + 1>>,
       <<c[1] + 1, c[2] - 1>>, <<c[1] + 1, c[2]>>, <<c[1] + 1, c[2] + 1>> >>

\* front cells that look ahead along one axis only (no diagonal step)
get_front_cells_one_axis(pos, velocity) ==
    LET current_cell == world_to_grid(pos)
        direction == IF ~IsNaN(velocity) /\ LengthAbove(velocity, 10)
                     THEN Normalize(velocity)
                     ELSE <<Unit, 0>>
        ax == Abs(direction[1])
        ay == Abs(direction[2])
        front_offset_x == IF ax >= ay THEN Signum(direction[1]) ELSE 0
        front_offset_y == IF ay > ax THEN Signum(direction[2]) ELSE 0
    IN  Block3(<<current_cell[1] + front_offset_x, current_cell[2] + front_offset_y>>)

\* front cells centred two cells ahead of the ant
get_front_cells_two_ahead(pos, velocity) ==
    LET current_cell == world_to_grid(pos)
        direction == IF ~IsNaN(velocity) /\ LengthAbove(velocity, 10)
                     THEN Normalize(velocity)
                     ELSE <<Unit, 0>>
        ax == Abs(direction[1])
        ay == Abs(direction[2])
        front_offset_x == IF ax >= ay THEN 2 * Signum(direction[1]) ELSE 0
        front_offset_y == IF ay >= ax THEN 2 * Signum(direction[2]) ELSE 0
    IN  Block3(<<current_cell[1] + front_offset_x, current_cell[2] + front_offset_y>>)

get_front_cells(pos, velocity) ==
    LET current_cell == world_to_grid(pos)
        direction == IF ~IsNaN(velocity) /\ LengthAbove(velocity, 10)
                     THEN Normalize(velocity)
                     ELSE <<Unit, 0>>
        ax == Abs(direction[1])
        ay == Abs(direction[2])
        front_offset_x == IF ax > ay THEN Signum(direction[1])
                          ELSE IF ax < ay THEN 0
                          ELSE Signum(direction[1])
        front_offset_y == IF ay > ax THEN Signum(direction[2])
                          ELSE IF ay < ax THEN 0
                          ELSE Signum(direction[2])
    IN  Block3(<<current_cell[1] + front_offset_x, current_cell[2] + front_offset_y>>)

SeqToSet(s) == { s[i] : i \in DOMAIN s }

\* (a / b).ceil() for b > 0
CeilDiv(a, b) == -((-a) \div b)

\* a.distance(b) <= r, with r in position units
DistanceAtMost(a, b, r) ==
    /\ ~IsNaN(a)
    /\ ~IsNaN(b)
    /\ r >= 0
    /\ Dist2(a, b) <= r * r

\* the cells of the scanned square, dx outer loop, dy inner loop
ScanSquare(center_cell, radius_cells) ==
    LET n == IF radius_cells < 0 THEN 0 ELSE 2 * radius_cells + 1
    IN  [ k \in 1..(n * n) |->
            << center_cell[1] - radius_cells + ((k - 1) \div n),
               center_cell[2] - radius_cells + ((k - 1) % n) >> ]

WithinRadius(s, pos, radius) ==
    SelectSeq(s, LAMBDA cell : DistanceAtMost(pos, grid_to_world(cell), radius))

\* a scan whose half-width rounds the radius down
get_nearby_cells_floor(pos, radius) ==
    WithinRadius(ScanSquare(world_to_grid(pos), radius \div CellLen), pos, radius)

\* GridMap::get_nearby_cells
get_nearby_cells(pos, radius) ==
    LET center_cell == world_to_grid(pos)
        radius_cells == CeilDiv(radius, CellLen)
    IN  WithinRadius(ScanSquare(center_cell, radius_cells), pos, radius)

(* ------------------------------------------------------------------------ *)
(* marker.rs: GridMap                                                        *)
(* ------------------------------------------------------------------------ *)
GridCellDataDefault == [base_marker |-> None, food_marker |-> None]

\* GridMap::get_cell: None for a cell without a record
get_cell(g, cell) == IF cell \in DOMAIN g THEN g[cell] ELSE GridCellDataDefault

HasCell(g, cell) == cell \in DOMAIN g

Slot(cd, marker_type) ==
    IF marker_type = "Base" THEN cd.base_marker ELSE cd.food_marker

WithSlot(cd, marker_type, e) ==
    IF marker_type = "Base" THEN [cd EXCEPT !.base_marker = e]
                            ELSE [cd EXCEPT !.food_marker = e]

\* a registration that respects the occupant of the slot
set_marker_if_empty(g, cell, marker_type, entity) ==
    IF Slot(get_cell(g, cell), marker_type) = None
    THEN [c \in DOMAIN g \cup {cell} |->
            IF c = cell THEN WithSlot(get_cell(g, cell), marker_type, entity)
                        ELSE g[c]]
    ELSE g

\* GridMap::set_marker (get_cell_mut inserts the default record)
set_marker(g, cell, marker_type, entity) ==
    [c \in DOMAIN g \cup {cell} |->
        IF c = cell THEN WithSlot(get_cell(g, cell), marker_type, entity)
                    ELSE g[c]]

\* a removal that reaches the cell through get_cell_mut
remove_marker_creates(g, cell, marker_type) ==
    [c \in DOMAIN g \cup {cell} |->
        IF c = cell THEN WithSlot(get_cell(g, cell), marker_type, None)
                    ELSE g[c]]

\* a removal that forgets to clear the slot
remove_marker_noop(g, cell, marker_type) == g

\* GridMap::remove_marker
remove_marker(g, cell, marker_type) ==
    IF cell \in DOMAIN g
    THEN [g EXCEPT ![cell] = WithSlot(g[cell], marker_type, None)]
    ELSE g

(* ------------------------------------------------------------------------ *)
(* The ECS world                                                             *)
(* ------------------------------------------------------------------------ *)
VARIABLES
    ants,         \* Ant + Transform + Sprite components, in table (spawn) order
    foods,        \* FoodSource entities, in table order
    markers,      \* live Marker entities: entity id -> components
    grid,         \* GridMap.cells: cell -> GridCellData
    nextId,       \* next entity id Commands::spawn reserves
    cmds,         \* deferred Commands, applied when the schedule ends
    spawn_timer,  \* SpawnTimer.timer elapsed
    dt,           \* Time::delta of the current frame
    ran,          \* systems of the Update schedule that have run this frame
    tick,         \* frames completed
    horizon,      \* frames to explore
    pickups,      \* history: pickups dispatched so far
    log,          \* history: what the systems did in the current frame
    probe         \* input / output of the pure grid functions

vars == <<ants, foods, markers, grid, nextId, cmds, spawn_timer, dt, ran, tick,
          horizon, pickups, log, probe>>

world == <<ants, foods, markers, grid, nextId, cmds, spawn_timer, dt, ran, tick,
           horizon, pickups, log>>

Systems == { "spawn_ants", "follow_markers", "move_ants", "keep_ants_in_bounds",
             "spawn_markers", "update_marker_visuals", "check_food_collision",
             "check_base_collision" }

\* the base sprite is centred on the corner shared by its 2x2 cells
base_center ==
    <<base_location[1] * CellLen + CellLen, base_location[2] * CellLen + CellLen>>

map_width_pixels == map_size[1] * CellLen

map_height_pixels == map_size[2] * CellLen

\* an ant placed at the origin of the map instead of the base
NewAnt_at_origin(heading) ==
    [ state |-> "Searching", has_food |-> FALSE, velocity |-> heading,
      direction_change_timer |-> 0, marker_timer |-> 0, state_timer |-> 0,
      pos |-> <<0, 0>>, color |-> "red" ]

\* Ant::new with the heading drawn, and the bundle spawn_ants / setup give it
NewAnt(heading) ==
    [ state |-> "Searching", has_food |-> FALSE, velocity |-> heading,
      direction_change_timer |-> 0, marker_timer |-> 0, state_timer |-> 0,
      pos |-> base_center, color |-> "red" ]

\* the food entities setup_simulation spawns: FoodSource, Sprite, Transform
\* (no FoodQuantity component is attached)
SetupFoods ==
    [ i \in 1..Len(food_locations) |->
        [ id |-> i, pos |-> grid_to_world(food_locations[i]),
          has_quantity |-> FALSE, quantity |-> 0 ] ]

\* the same entities carrying FoodQuantity { quantity: food_quantity }
SetupFoodsWithQuantity ==
    [ i \in 1..Len(food_locations) |->
        [ SetupFoods[i] EXCEPT !.has_quantity = TRUE, !.quantity = food_quantity ] ]

InitWorld(fs, frames) ==
    /\ ants \in [1..initial_ant_count -> { NewAnt(h) : h \in HeadingSet }]
    /\ foods = fs
    /\ markers = << >>
    /\ grid = << >>
    /\ nextId = Len(fs) + 1
    /\ cmds = << >>
    /\ spawn_timer = 0
    /\ dt \in DeltaSet
    /\ ran = {}
    /\ tick = 0
    /\ horizon = frames
    /\ pickups = 0
    /\ log = {}
    /\ probe = << >>

\* setup_simulation
Init == InitWorld(SetupFoods, MaxTicks)

(* ------------------------------------------------------------------------ *)
(* ant.rs: follow_markers                                                    *)
(* ------------------------------------------------------------------------ *)
TargetType(ant) == IF ant.state = "Searching" THEN "Food" ELSE "Base"

\* the scan of the front cells from index i on; best is None or a marker id
\* a scan that settles for the first marker it finds
RECURSIVE StrongestFrom_first(_, _, _, _)
StrongestFrom_first(cells, i, target, best) ==
    IF i > Len(cells) THEN best
    ELSE LET entity == Slot(get_cell(grid, cells[i]), target)
             usable == /\ entity # None
                       /\ entity \in DOMAIN markers
                       /\ markers[entity].marker_type = target
             next   == IF ~usable THEN best
                       ELSE IF best = None THEN entity
                       ELSE best
         IN  StrongestFrom_first(cells, i + 1, target, next)

\* a scan in which a later marker of equal intensity takes over
RECURSIVE StrongestFrom_last(_, _, _, _)
StrongestFrom_last(cells, i, target, best) ==
    IF i > Len(cells) THEN best
    ELSE LET entity == Slot(get_cell(grid, cells[i]), target)
             usable == /\ entity # None
                       /\ entity \in DOMAIN markers
                       /\ markers[entity].marker_type = target
             next   == IF ~usable THEN best
                       ELSE IF best = None THEN entity
                       ELSE IF markers[entity].intensity >= markers[best].intensity
                            THEN entity
                       ELSE best
         IN  StrongestFrom_last(cells, i + 1, target, next)

RECURSIVE StrongestFrom(_, _, _, _)
StrongestFrom(cells, i, target, best) ==
    IF i > Len(cells) THEN best
    ELSE LET entity == Slot(get_cell(grid, cells[i]), target)
             usable == /\ entity # None
                       /\ entity \in DOMAIN markers
                       /\ markers[entity].marker_type = target
             next   == IF ~usable THEN best
                       ELSE IF best = None THEN entity
                       ELSE IF markers[entity].intensity > markers[best].intensity
                            THEN entity
                       ELSE best
         IN  StrongestFrom(cells, i + 1, target, next)

strongest_marker(ant) ==
    StrongestFrom(get_front_cells(ant.pos, ant.velocity), 1, TargetType(ant), None)

\* velocity * (1 - influence) + direction * influence
Blend(velocity, direction, keep, pull) ==
    IF IsNaN(velocity) \/ IsNaN(direction) THEN NaNVec
    ELSE <<TruncDiv(velocity[1] * keep + direction[1] * pull, Unit),
           TruncDiv(velocity[2] * keep + direction[2] * pull, Unit)>>

Influence(intensity) ==
    TruncDiv(TruncDiv(intensity, MAX_INTENSITY) * INFLUENCE_STRENGTH, Unit)

follow_one(ant) ==
    LET m == strongest_marker(ant)
    IN  IF m = None THEN ant
        ELSE LET direction_to_marker == Normalize(VSub(markers[m].pos, ant.pos))
                 influence == Influence(markers[m].intensity)
             IN  [ant EXCEPT !.velocity =
                     Normalize(Blend(ant.velocity, direction_to_marker,
                                     Unit - influence, influence))]

follow_markers ==
    /\ "follow_markers" \notin ran
    /\ ants' = [i \in DOMAIN ants |-> follow_one(ants[i])]
    /\ log' = log \cup { [kind |-> "follow", ant |-> i, e |-> strongest_marker(ants[i])]
                         : i \in { k \in DOMAIN ants : strongest_marker(ants[k]) # None } }
    /\ ran' = ran \cup {"follow_markers"}
    /\ UNCHANGED <<foods, markers, grid, nextId, cmds, spawn_timer, dt, tick, horizon,
                   pickups, probe>>

(* ------------------------------------------------------------------------ *)
(* ant.rs: move_ants                                                         *)
(* ------------------------------------------------------------------------ *)
\* the food scan: closest is 0 (none) or an index into foods; strict < keeps
\* the first of equally distant sources
\* a food scan in which a later source at equal distance takes over
RECURSIVE ClosestFrom_last(_, _, _, _)
ClosestFrom_last(ant_pos, front, i, closest) ==
    IF i > Len(foods) THEN closest
    ELSE LET food_pos == foods[i].pos
             inFront  == world_to_grid(food_pos) \in SeqToSet(front)
             nearer   == /\ ~IsNaN(ant_pos)
                         /\ \/ closest = 0
                            \/ Dist2(ant_pos, food_pos) <= Dist2(ant_pos, foods[closest].pos)
         IN  ClosestFrom_last(ant_pos, front, i + 1,
                              IF inFront /\ nearer THEN i ELSE closest)

RECURSIVE ClosestFrom(_, _, _, _)
ClosestFrom(ant_pos, front, i, closest) ==
    IF i > Len(foods) THEN closest
    ELSE LET food_pos == foods[i].pos
             inFront  == world_to_grid(food_pos) \in SeqToSet(front)
             nearer   == /\ ~IsNaN(ant_pos)
                         /\ \/ closest = 0
                            \/ Dist2(ant_pos, food_pos) < Dist2(ant_pos, foods[closest].pos)
         IN  ClosestFrom(ant_pos, front, i + 1,
                         IF inFront /\ nearer THEN i ELSE closest)

closest_food(ant) ==
    ClosestFrom(ant.pos, get_front_cells(ant.pos, ant.velocity), 1, 0)

\* Vec2::new((a + d).cos(), (a + d).sin()).normalize(), a = atan2(v.y, v.x)
Rotate(v, d) ==
    IF IsNaN(v) THEN NaNVec
    ELSE LET u == IF v = <<0, 0>> THEN <<Unit, 0>> ELSE Normalize(v)
         IN  Normalize(<<TruncDiv(u[1] * d[2] - u[2] * d[1], Unit),
                         TruncDiv(u[1] * d[1] + u[2] * d[2], Unit)>>)

\* transform.translation += velocity * ANT_SPEED * dt
Integrate(pos, velocity) ==
    IF IsNaN(pos) \/ IsNaN(velocity) THEN NaNVec
    ELSE <<pos[1] + TruncDiv(velocity[1] * ANT_SPEED * dt * PosScale, Unit * 100),
           pos[2] + TruncDiv(velocity[2] * ANT_SPEED * dt * PosScale, Unit * 100)>>

\* a steering that blends towards the food like the pull towards the base
steer_searching_blend(ant, d) ==
    LET f == closest_food(ant)
    IN  IF f # 0
        THEN [ant EXCEPT !.velocity =
                 Normalize(Blend(ant.velocity, Normalize(VSub(foods[f].pos, ant.pos)),
                                 BASE_BLEND_KEEP, BASE_BLEND_PULL))]
        ELSE LET t == ant.direction_change_timer + dt
             IN  IF t >= DIRECTION_CHANGE_INTERVAL
                 THEN [ant EXCEPT !.velocity = Rotate(ant.velocity, d),
                                  !.direction_change_timer = 0]
                 ELSE [ant EXCEPT !.direction_change_timer = t]

\* a random walk that never restarts its timer
steer_searching_no_restart(ant, d) ==
    LET f == closest_food(ant)
    IN  IF f # 0
        THEN [ant EXCEPT !.velocity = Normalize(VSub(foods[f].pos, ant.pos))]
        ELSE LET t == ant.direction_change_timer + dt
             IN  IF t >= DIRECTION_CHANGE_INTERVAL
                 THEN [ant EXCEPT !.velocity = Rotate(ant.velocity, d),
                                  !.direction_change_timer = t]
                 ELSE [ant EXCEPT !.direction_change_timer = t]

steer_searching(ant, d) ==
    LET f == closest_food(ant)
    IN  IF f # 0
        THEN [ant EXCEPT !.velocity = Normalize(VSub(foods[f].pos, ant.pos))]
        ELSE LET t == ant.direction_change_timer + dt
             IN  IF t >= DIRECTION_CHANGE_INTERVAL
                 THEN [ant EXCEPT !.velocity = Rotate(ant.velocity, d),
                                  !.direction_change_timer = 0]
                 ELSE [ant EXCEPT !.direction_change_timer = t]

\* a steering step that itself settles the arrival at the base
steer_returning_arrives(ant) ==
    IF DistanceBelow(ant.pos, base_center, BASE_COLLISION_THRESHOLD)
    THEN [ant EXCEPT !.state = "Searching", !.has_food = FALSE]
    ELSE ant

\* a return that heads straight for the base, dropping the current heading
steer_returning_straight(ant) ==
    [ant EXCEPT !.velocity = Normalize(VSub(base_center, ant.pos))]

steer_returning(ant) ==
    LET base_direction == Normalize(VSub(base_center, ant.pos))
    IN  [ant EXCEPT !.velocity =
            Normalize(Blend(ant.velocity, base_direction,
                            BASE_BLEND_KEEP, BASE_BLEND_PULL))]

move_one(ant, d) ==
    LET steered == IF ant.state = "Searching" THEN steer_searching(ant, d)
                                               ELSE steer_returning(ant)
    IN  [steered EXCEPT !.pos = Integrate(ant.pos, steered.velocity)]

\* whether the random walk draws for this ant in this frame
Perturbs(ant) ==
    /\ ant.state = "Searching"
    /\ closest_food(ant) = 0
    /\ ant.direction_change_timer + dt >= DIRECTION_CHANGE_INTERVAL

move_ants ==
    /\ "move_ants" \notin ran
    /\ \E d \in [DOMAIN ants -> PerturbSet] :
          /\ \A i \in DOMAIN ants : ~Perturbs(ants[i]) => d[i] = <<0, Unit>>
          /\ ants' = [i \in DOMAIN ants |-> move_one(ants[i], d[i])]
    /\ log' = log \cup { [kind |-> "walk", ant |-> i, perturbed |-> Perturbs(ants[i])]
                         : i \in { k \in DOMAIN ants :
                                     ants[k].state = "Searching" /\ closest_food(ants[k]) = 0 } }
                   \cup { [kind |-> "steer", ant |-> i,
                           food |-> foods[closest_food(ants[i])].id,
                           followed |-> (\E f \in log : f.kind = "follow" /\ f.ant = i)]
                         : i \in { k \in DOMAIN ants :
                                     ants[k].state = "Searching" /\ closest_food(ants[k]) # 0 } }
                   \cup { [kind |-> "home", ant |-> i,
                           followed |-> (\E f \in log : f.kind = "follow" /\ f.ant = i)]
                         : i \in { k \in DOMAIN ants : ants[k].state = "Returning" } }
    /\ ran' = ran \cup {"move_ants"}
    /\ UNCHANGED <<foods, markers, grid, nextId, cmds, spawn_timer, dt, tick, horizon,
                   pickups, probe>>

(* ------------------------------------------------------------------------ *)
(* ant.rs: keep_ants_in_bounds                                               *)
(* ------------------------------------------------------------------------ *)
\* a boundary that stops the ant at the edge instead of wrapping
Wrap_clamp(x, limit) ==
    IF x = NaNC THEN x
    ELSE IF x < 0 THEN 0
    ELSE IF x > limit THEN limit
    ELSE x

Wrap(x, limit) ==
    IF x = NaNC THEN x
    ELSE IF x < 0 THEN limit
    ELSE IF x > limit THEN 0
    ELSE x

keep_one(ant) ==
    [ant EXCEPT !.pos = <<Wrap(ant.pos[1], map_width_pixels),
                          Wrap(ant.pos[2], map_height_pixels)>>]

keep_ants_in_bounds ==
    /\ "keep_ants_in_bounds" \notin ran
    /\ ants' = [i \in DOMAIN ants |-> keep_one(ants[i])]
    /\ ran' = ran \cup {"keep_ants_in_bounds"}
    /\ UNCHANGED <<foods, markers, grid, nextId, cmds, spawn_timer, dt, tick, horizon,
                   pickups, log, probe>>

(* ------------------------------------------------------------------------ *)
(* marker.rs: spawn_markers                                                  *)
(* ------------------------------------------------------------------------ *)
\* an emission that ignores what the ant is doing
EmitType_base_only(ant) == "Base"

EmitType(ant) == IF ant.state = "Returning" THEN "Food" ELSE "Base"

\* an intensity that grows with the time spent in the state
InitialIntensity_plus(state_timer) ==
    INITIAL_INTENSITY * Unit + TruncDiv(state_timer * Unit, marker_lifetime)

\* INITIAL_INTENSITY - state_timer / marker_lifetime, not clamped
InitialIntensity(state_timer) ==
    INITIAL_INTENSITY * Unit - TruncDiv(state_timer * Unit, marker_lifetime)

NewMarker(ant, grid_cell) ==
    [ intensity |-> InitialIntensity(ant.state_timer),
      marker_type |-> EmitType(ant),
      grid_cell |-> grid_cell,
      timer |-> 0,
      pos |-> grid_to_world(grid_cell),
      opacity |-> Unit,
      size |-> BASE_MARKER_SIZE * Unit ]

\* a replacement that only overwrites the grid reference
EvictOld_overwrite_only(queue, old_entity) == queue

\* commands.entity(old_entity).despawn() for the occupant of the slot
EvictOld(queue, old_entity) ==
    IF old_entity # None
    THEN Append(queue, [op |-> "despawn", e |-> old_entity])
    ELSE queue

\* an iteration that emits without restarting the ant's marker timer
emit_one_keeps_timer(acc, i) ==
    LET ant == [acc.ants[i] EXCEPT !.marker_timer = @ + dt, !.state_timer = @ + dt]
    IN  IF ant.marker_timer >= marker_spawn_interval
        THEN LET grid_cell == world_to_grid(ant.pos)
                 marker_type == EmitType(ant)
                 old_entity == Slot(get_cell(acc.grid, grid_cell), marker_type)
                 marker_entity == acc.nextId
             IN  [ ants |-> [acc.ants EXCEPT ![i] = ant],
                   grid |-> set_marker(acc.grid, grid_cell, marker_type, marker_entity),
                   cmds |-> Append(EvictOld(acc.cmds, old_entity),
                                   [op |-> "spawn_marker", e |-> marker_entity,
                                    marker |-> NewMarker(ant, grid_cell)]),
                   nextId |-> acc.nextId + 1,
                   log |-> acc.log \cup
                           {[kind |-> "emit", ant |-> i, e |-> marker_entity,
                             cell |-> grid_cell, mtype |-> marker_type,
                             old |-> old_entity]} ]
        ELSE [acc EXCEPT !.ants[i] = ant]

\* one iteration of the loop over the ants
emit_one(acc, i) ==
    LET ant == [acc.ants[i] EXCEPT !.marker_timer = @ + dt, !.state_timer = @ + dt]
    IN  IF ant.marker_timer >= marker_spawn_interval
        THEN LET grid_cell == world_to_grid(ant.pos)
                 marker_type == EmitType(ant)
                 old_entity == Slot(get_cell(acc.grid, grid_cell), marker_type)
                 marker_entity == acc.nextId
             IN  [ ants |-> [acc.ants EXCEPT ![i] = [ant EXCEPT !.marker_timer = 0]],
                   grid |-> set_marker(acc.grid, grid_cell, marker_type, marker_entity),
                   cmds |-> Append(EvictOld(acc.cmds, old_entity),
                                   [op |-> "spawn_marker", e |-> marker_entity,
                                    marker |-> NewMarker(ant, grid_cell)]),
                   nextId |-> acc.nextId + 1,
                   log |-> acc.log \cup
                           {[kind |-> "emit", ant |-> i, e |-> marker_entity,
                             cell |-> grid_cell, mtype |-> marker_type,
                             old |-> old_entity]} ]
        ELSE [acc EXCEPT !.ants[i] = ant]

RECURSIVE EmitFrom(_, _)
EmitFrom(acc, i) ==
    IF i > Len(acc.ants) THEN acc ELSE EmitFrom(emit_one(acc, i), i + 1)

spawn_markers ==
    /\ "spawn_markers" \notin ran
    /\ LET r == EmitFrom([ants |-> ants, grid |-> grid, cmds |-> cmds,
                          nextId |-> nextId, log |-> log], 1)
       IN  /\ ants' = r.ants
           /\ grid' = r.grid
           /\ cmds' = r.cmds
           /\ nextId' = r.nextId
           /\ log' = r.log
    /\ ran' = ran \cup {"spawn_markers"}
    /\ UNCHANGED <<foods, markers, spawn_timer, dt, tick, horizon, pickups, probe>>

(* ------------------------------------------------------------------------ *)
(* marker.rs: update_marker_visuals                                          *)
(* ------------------------------------------------------------------------ *)
RECURSIVE SetToSeq(_)
SetToSeq(S) ==
    IF S = {} THEN << >>
    ELSE LET m == CHOOSE x \in S : \A y \in S : x <= y
         IN  <<m>> \o SetToSeq(S \ {m})

Clamp01(x) == IF x < 0 THEN 0 ELSE IF x > Unit THEN Unit ELSE x

\* lifetime.timer.tick(delta); just_finished()
Expires(m) == m.timer + dt >= marker_lifetime

Expired == { e \in DOMAIN markers : Expires(markers[e]) }

\* a fade that wears the intensity itself down
Visuals_decay(m) ==
    LET scale == Clamp01(TruncDiv(m.intensity, INITIAL_INTENSITY))
    IN  [m EXCEPT !.timer = @ + dt, !.opacity = scale,
                  !.size = TruncDiv(BASE_MARKER_SIZE * Unit * scale, Unit),
                  !.intensity = @ - TruncDiv(dt * Unit, marker_lifetime)]

Visuals(m) ==
    LET scale == Clamp01(TruncDiv(m.intensity, INITIAL_INTENSITY))
    IN  [m EXCEPT !.timer = @ + dt, !.opacity = scale,
                  !.size = TruncDiv(BASE_MARKER_SIZE * Unit * scale, Unit)]

RECURSIVE RemoveAll(_, _, _)
RemoveAll(g, es, i) ==
    IF i > Len(es) THEN g
    ELSE RemoveAll(remove_marker(g, markers[es[i]].grid_cell,
                                 markers[es[i]].marker_type), es, i + 1)

update_marker_visuals ==
    /\ "update_marker_visuals" \notin ran
    /\ LET es == SetToSeq(Expired)
       IN  /\ grid' = RemoveAll(grid, es, 1)
           /\ cmds' = cmds \o [k \in 1..Len(es) |-> [op |-> "despawn", e |-> es[k]]]
           /\ markers' = [e \in DOMAIN markers |->
                            IF e \in Expired
                            THEN [markers[e] EXCEPT !.timer = marker_lifetime]
                            ELSE Visuals(markers[e])]
           /\ log' = log \cup
                { [kind |-> "expire", e |-> e,
                   cell |-> markers[e].grid_cell,
                   mtype |-> markers[e].marker_type,
                   slot_after |-> Slot(get_cell(grid', markers[e].grid_cell),
                                       markers[e].marker_type)] : e \in Expired }
    /\ ran' = ran \cup {"update_marker_visuals"}
    /\ UNCHANGED <<ants, foods, nextId, spawn_timer, dt, tick, horizon, pickups, probe>>

(* ------------------------------------------------------------------------ *)
(* food.rs: check_food_collision                                             *)
(* ------------------------------------------------------------------------ *)
\* the inner loop: the first food source (among those the query matches, i.e.
\* carrying FoodQuantity) within the threshold and with quantity > 0
\* an inner loop that also matches a source with nothing left
RECURSIVE FirstFood_any_quantity(_, _, _)
FirstFood_any_quantity(ant_pos, fs, j) ==
    IF j > Len(fs) THEN 0
    ELSE IF /\ fs[j].has_quantity
            /\ DistanceBelow(ant_pos, fs[j].pos, FOOD_COLLISION_THRESHOLD)
         THEN j
    ELSE FirstFood_any_quantity(ant_pos, fs, j + 1)

RECURSIVE FirstFood(_, _, _)
FirstFood(ant_pos, fs, j) ==
    IF j > Len(fs) THEN 0
    ELSE IF /\ fs[j].has_quantity
            /\ DistanceBelow(ant_pos, fs[j].pos, FOOD_COLLISION_THRESHOLD)
            /\ fs[j].quantity > 0
         THEN j
    ELSE FirstFood(ant_pos, fs, j + 1)

\* a pickup that leaves the source's quantity alone
TakeOne_keep(q) == q

\* food_quantity.quantity -= 1
TakeOne(q) == q - 1

\* what is left of a source: its FoodQuantity, or the configured quantity
\* while nothing has been taken from it
RemainingQuantity(f) == IF f.has_quantity THEN f.quantity ELSE food_quantity

\* history: a searching ant without food stands within the threshold of a
\* food source that has something left when the check reaches it
NearFood(acc, i) ==
    LET ant == acc.ants[i]
    IN  IF /\ ant.state = "Searching"
           /\ ~ant.has_food
           /\ \E j \in DOMAIN acc.foods :
                 /\ DistanceBelow(ant.pos, acc.foods[j].pos, FOOD_COLLISION_THRESHOLD)
                 /\ RemainingQuantity(acc.foods[j]) > 0
        THEN {[kind |-> "near_food", ant |-> i, before |-> ant.velocity]}
        ELSE {}

\* a pickup that takes from every source in reach
pickup_one_every(acc, i) ==
    LET ant == acc.ants[i]
        j   == FirstFood(ant.pos, acc.foods, 1)
        reach == { k \in DOMAIN acc.foods : FirstFood(ant.pos, acc.foods, k) = k }
    IN  IF ant.state = "Searching" /\ ~ant.has_food /\ j # 0
        THEN LET q == TakeOne(acc.foods[j].quantity)
             IN  [ ants |-> [acc.ants EXCEPT ![i] =
                               [ant EXCEPT !.has_food = TRUE,
                                           !.state = "Returning",
                                           !.state_timer = 0,
                                           !.marker_timer = 0,
                                           !.velocity = VNeg(ant.velocity),
                                           !.color = "green"]],
                   foods |-> [k \in DOMAIN acc.foods |->
                                IF k \in reach
                                THEN [acc.foods[k] EXCEPT !.quantity = TakeOne(@)]
                                ELSE acc.foods[k]],
                   cmds |-> IF q = 0
                            THEN Append(acc.cmds, [op |-> "despawn_food",
                                                   e |-> acc.foods[j].id])
                            ELSE acc.cmds,
                   pickups |-> acc.pickups + 1,
                   log |-> acc.log \cup NearFood(acc, i) \cup
                           {[kind |-> "pickup", ant |-> i, food |-> acc.foods[j].id,
                             before |-> ant.velocity]} ]
        ELSE [acc EXCEPT !.log = @ \cup NearFood(acc, i)]

\* a pickup that restarts the marker timer only
pickup_one_keeps_state_timer(acc, i) ==
    LET ant == acc.ants[i]
        j   == FirstFood(ant.pos, acc.foods, 1)
    IN  IF ant.state = "Searching" /\ ~ant.has_food /\ j # 0
        THEN LET q == TakeOne(acc.foods[j].quantity)
             IN  [ ants |-> [acc.ants EXCEPT ![i] =
                               [ant EXCEPT !.has_food = TRUE,
                                           !.state = "Returning",
                                           !.marker_timer = 0,
                                           !.velocity = VNeg(ant.velocity),
                                           !.color = "green"]],
                   foods |-> [acc.foods EXCEPT ![j].quantity = q],
                   cmds |-> IF q = 0
                            THEN Append(acc.cmds, [op |-> "despawn_food",
                                                   e |-> acc.foods[j].id])
                            ELSE acc.cmds,
                   pickups |-> acc.pickups + 1,
                   log |-> acc.log \cup NearFood(acc, i) \cup
                           {[kind |-> "pickup", ant |-> i, food |-> acc.foods[j].id,
                             before |-> ant.velocity]} ]
        ELSE [acc EXCEPT !.log = @ \cup NearFood(acc, i)]

pickup_one(acc, i) ==
    LET ant == acc.ants[i]
        j   == FirstFood(ant.pos, acc.foods, 1)
    IN  IF ant.state = "Searching" /\ ~ant.has_food /\ j # 0
        THEN LET q == TakeOne(acc.foods[j].quantity)
             IN  [ ants |-> [acc.ants EXCEPT ![i] =
                               [ant EXCEPT !.has_food = TRUE,
                                           !.state = "Returning",
                                           !.state_timer = 0,
                                           !.marker_timer = 0,
                                           !.velocity = VNeg(ant.velocity),
                                           !.color = "green"]],
                   foods |-> [acc.foods EXCEPT ![j].quantity = q],
                   cmds |-> IF q = 0
                            THEN Append(acc.cmds, [op |-> "despawn_food",
                                                   e |-> acc.foods[j].id])
                            ELSE acc.cmds,
                   pickups |-> acc.pickups + 1,
                   log |-> acc.log \cup NearFood(acc, i) \cup
                           {[kind |-> "pickup", ant |-> i, food |-> acc.foods[j].id,
                             before |-> ant.velocity]} ]
        ELSE [acc EXCEPT !.log = @ \cup NearFood(acc, i)]

RECURSIVE PickupFrom(_, _)
PickupFrom(acc, i) ==
    IF i > Len(acc.ants) THEN acc ELSE PickupFrom(pickup_one(acc, i), i + 1)

check_food_collision ==
    /\ "check_food_collision" \notin ran
    /\ LET r == PickupFrom([ants |-> ants, foods |-> foods, cmds |-> cmds,
                            pickups |-> pickups, log |-> log], 1)
       IN  /\ ants' = r.ants
           /\ foods' = r.foods
           /\ cmds' = r.cmds
           /\ pickups' = r.pickups
           /\ log' = r.log
    /\ ran' = ran \cup {"check_food_collision"}
    /\ UNCHANGED <<markers, grid, nextId, spawn_timer, dt, tick, horizon, probe>>

(* ------------------------------------------------------------------------ *)
(* base.rs: check_base_collision, spawn_ants                                 *)
(* ------------------------------------------------------------------------ *)
AtBase(ant) ==
    /\ ant.state = "Returning"
    /\ ant.has_food
    /\ DistanceBelow(ant.pos, base_center, BASE_COLLISION_THRESHOLD)

\* a drop-off that keeps the heading
UTurn_none(v) == v

\* ant.velocity = -ant.velocity
UTurn(v) == VNeg(v)

\* a drop-off that changes the state but leaves the food with the ant
drop_one_keeps_food(ant) ==
    IF AtBase(ant)
    THEN [ant EXCEPT !.state = "Searching",
                     !.state_timer = 0,
                     !.marker_timer = 0,
                     !.velocity = UTurn(ant.velocity),
                     !.color = "red"]
    ELSE ant

drop_one(ant) ==
    IF AtBase(ant)
    THEN [ant EXCEPT !.has_food = FALSE,
                     !.state = "Searching",
                     !.state_timer = 0,
                     !.marker_timer = 0,
                     !.velocity = UTurn(ant.velocity),
                     !.color = "red"]
    ELSE ant

check_base_collision ==
    /\ "check_base_collision" \notin ran
    /\ ants' = [i \in DOMAIN ants |-> drop_one(ants[i])]
    /\ log' = log \cup { [kind |-> "dropoff", ant |-> i, before |-> ants[i].velocity]
                         : i \in { k \in DOMAIN ants : AtBase(ants[k]) } }
    /\ ran' = ran \cup {"check_base_collision"}
    /\ UNCHANGED <<foods, markers, grid, nextId, cmds, spawn_timer, dt, tick, horizon,
                   pickups, probe>>

\* config.spawn_rate of the run: the value drawn by a world that draws one,
\* the configured value otherwise
ConfigSpawnRate ==
    IF DOMAIN probe = {"spawn_rate"} THEN probe.spawn_rate ELSE spawn_rate

\* a base that releases an ant in every frame
spawn_ants_every_frame ==
    /\ "spawn_ants" \notin ran
    /\ \E h \in HeadingSet :
          cmds' = Append(cmds, [op |-> "spawn_ant", ant |-> NewAnt(h)])
    /\ ran' = ran \cup {"spawn_ants"}
    /\ UNCHANGED <<ants, foods, markers, grid, nextId, spawn_timer, dt, tick, horizon,
                   pickups, log, probe>>

spawn_ants ==
    /\ "spawn_ants" \notin ran
    /\ IF ConfigSpawnRate > 0
       THEN LET t == spawn_timer + dt
            IN  IF t >= ConfigSpawnRate
                THEN /\ spawn_timer' = t % ConfigSpawnRate
                     /\ \E h \in HeadingSet :
                           cmds' = Append(cmds, [op |-> "spawn_ant", ant |-> NewAnt(h)])
                ELSE /\ spawn_timer' = t
                     /\ cmds' = cmds
       ELSE UNCHANGED <<spawn_timer, cmds>>
    /\ ran' = ran \cup {"spawn_ants"}
    /\ UNCHANGED <<ants, foods, markers, grid, nextId, dt, tick, horizon, pickups, log, probe>>

(* ------------------------------------------------------------------------ *)
(* The Update schedule: deferred commands and frames                         *)
(* ------------------------------------------------------------------------ *)
\* World::despawn of a row of the food table: swap_remove
RemoveFood(fs, id) ==
    LET hit == { j \in DOMAIN fs : fs[j].id = id }
    IN  IF hit = {} THEN fs
        ELSE LET j == CHOOSE k \in hit : TRUE
                 n == Len(fs)
             IN  [k \in 1..(n - 1) |-> IF k = j THEN fs[n] ELSE fs[k]]

ApplyOne(w, c) ==
    IF c.op = "despawn"
    THEN [w EXCEPT !.markers = [e \in DOMAIN w.markers \ {c.e} |-> w.markers[e]]]
    ELSE IF c.op = "spawn_marker"
    THEN [w EXCEPT !.markers = [e \in DOMAIN w.markers \cup {c.e} |->
                                  IF e = c.e THEN c.marker ELSE w.markers[e]]]
    ELSE IF c.op = "despawn_food"
    THEN [w EXCEPT !.foods = RemoveFood(w.foods, c.e)]
    ELSE [w EXCEPT !.ants = Append(w.ants, c.ant)]

RECURSIVE ApplyFrom(_, _, _)
ApplyFrom(w, queue, k) ==
    IF k > Len(queue) THEN w ELSE ApplyFrom(ApplyOne(w, queue[k]), queue, k + 1)

\* apply_deferred at the end of the schedule
ApplyDeferred ==
    /\ ran = Systems
    /\ LET w == ApplyFrom([ants |-> ants, foods |-> foods, markers |-> markers],
                          cmds, 1)
       IN  /\ ants' = w.ants
           /\ foods' = w.foods
           /\ markers' = w.markers
    /\ cmds' = << >>
    /\ ran' = Systems \cup {"apply_deferred"}
    /\ UNCHANGED <<grid, nextId, spawn_timer, dt, tick, horizon, pickups, log, probe>>

\* the next frame starts
BeginFrame ==
    /\ "apply_deferred" \in ran
    /\ tick < horizon
    /\ ran' = {}
    /\ tick' = tick + 1
    /\ dt' \in DeltaSet
    /\ log' = {}
    /\ UNCHANGED <<ants, foods, markers, grid, nextId, cmds, spawn_timer, horizon,
                   pickups, probe>>

\* one frame's systems and its end
Frame ==
    \/ spawn_ants
    \/ follow_markers
    \/ move_ants
    \/ keep_ants_in_bounds
    \/ spawn_markers
    \/ update_marker_visuals
    \/ check_food_collision
    \/ check_base_collision
    \/ ApplyDeferred
    \/ BeginFrame

Next == Frame

Spec == Init /\ [][Next]_vars

\* the world of the data model: every food source carries its quantity
InitQ == InitWorld(SetupFoodsWithQuantity, MaxTicksQ)

SpecQ == InitQ /\ [][Next]_vars

\* food entities at the given cells; q = 0: as setup_simulation spawns them,
\* q > 0: carrying FoodQuantity { quantity: q }
FoodsAt(locs, q) ==
    [ i \in 1..Len(locs) |->
        [ id |-> i, pos |-> grid_to_world(locs[i]),
          has_quantity |-> q > 0, quantity |-> q ] ]

\* other configurations: food_locations = [] (ants only roam),
\* food_locations = [(1,1)] next to the base, food_locations = [(2,1)] out of
\* the sight of an ant that leaves the base westwards
InitWalk == InitWorld(FoodsAt(<< >>, 0), MaxTicksWalk)

InitOne == InitWorld(FoodsAt(<< <<1, 1>> >>, 1), MaxTicksOne)

InitFar == InitWorld(FoodsAt(<< <<2, 1>> >>, 1), MaxTicksFar)

SpecWalk == InitWalk /\ [][Next]_vars

SpecOne == InitOne /\ [][Next]_vars

SpecFar == InitFar /\ [][Next]_vars

\* food_locations = [(1,1), (1,1)]: two sources share a cell, so an ant in reach
\* of one is in reach of both
InitTwin == InitWorld(FoodsAt(<< <<1, 1>>, <<1, 1>> >>, 1), MaxTicksTwin)

SpecTwin == InitTwin /\ [][Next]_vars

\* initial_ant_count = 2, food_locations = [(1,1)], food_quantity = 1: two ants
\* leave the base together and reach the only unit of food in the same frame
InitPair ==
    /\ ants \in [1..2 -> { NewAnt(h) : h \in HeadingSet }]
    /\ foods = FoodsAt(<< <<1, 1>> >>, 1)
    /\ markers = << >>
    /\ grid = << >>
    /\ nextId = 2
    /\ cmds = << >>
    /\ spawn_timer = 0
    /\ dt \in DeltaSet
    /\ ran = {}
    /\ tick = 0
    /\ horizon = MaxTicksPair
    /\ pickups = 0
    /\ log = {}
    /\ probe = << >>

SpecPair == InitPair /\ [][Next]_vars

\* spawn_rate values a configuration may carry: none, 0.4 s, 1 s
SpawnRates == {0, 40, 100}

\* setup_simulation with food_locations = [] and the spawn_rate drawn
InitRate ==
    /\ ants \in [1..initial_ant_count -> { NewAnt(h) : h \in HeadingSet }]
    /\ foods = << >>
    /\ markers = << >>
    /\ grid = << >>
    /\ nextId = 1
    /\ cmds = << >>
    /\ spawn_timer = 0
    /\ dt \in DeltaSet
    /\ ran = {}
    /\ tick = 0
    /\ horizon = MaxTicksRate
    /\ pickups = 0
    /\ log = {}
    /\ probe \in { [spawn_rate |-> r] : r \in SpawnRates }

SpecRate == InitRate /\ [][Next]_vars

\* frame times of 0.13 s and 0.2 s: steps that add up to the distance between
\* the base and the centre of cell (1,1)
HitDeltas == {13, 20}

\* setup_simulation with food_locations = [(1,1)]
InitHit ==
    /\ ants \in [1..initial_ant_count -> { NewAnt(h) : h \in HeadingSet }]
    /\ foods = FoodsAt(<< <<1, 1>> >>, 0)
    /\ markers = << >>
    /\ grid = << >>
    /\ nextId = 2
    /\ cmds = << >>
    /\ spawn_timer = 0
    /\ dt \in HitDeltas
    /\ ran = {}
    /\ tick = 0
    /\ horizon = MaxTicksHit
    /\ pickups = 0
    /\ log = {}
    /\ probe = << >>

BeginFrameHit ==
    /\ "apply_deferred" \in ran
    /\ tick < horizon
    /\ ran' = {}
    /\ tick' = tick + 1
    /\ dt' \in HitDeltas
    /\ log' = {}
    /\ UNCHANGED <<ants, foods, markers, grid, nextId, cmds, spawn_timer, horizon,
                   pickups, probe>>

NextHit ==
    \/ spawn_ants
    \/ follow_markers
    \/ move_ants
    \/ keep_ants_in_bounds
    \/ spawn_markers
    \/ update_marker_visuals
    \/ check_food_collision
    \/ check_base_collision
    \/ ApplyDeferred
    \/ BeginFrameHit

SpecHit == InitHit /\ [][NextHit]_vars

\* the roaming world and the world with one source next to the base
InitRoam == InitWalk \/ InitOne

SpecRoam == InitRoam /\ [][Next]_vars

(* ------------------------------------------------------------------------ *)
(* The grid conversions as functions of their input                          *)
(* ------------------------------------------------------------------------ *)
CellRange == (-MaxCell)..MaxCell

InitGrid ==
    /\ ants = << >>
    /\ foods = << >>
    /\ markers = << >>
    /\ grid = << >>
    /\ nextId = 1
    /\ cmds = << >>
    /\ spawn_timer = 0
    /\ dt = 0
    /\ ran = {}
    /\ tick = 0
    /\ horizon = 0
    /\ pickups = 0
    /\ log = {}
    /\ probe \in { [stage |-> "cell", cell |-> <<x, y>>, pos |-> <<0, 0>>,
                    back |-> <<0, 0>>] : x \in CellRange, y \in CellRange }

\* grid_to_world applied to the drawn cell
ProbeToWorld ==
    /\ probe.stage = "cell"
    /\ probe' = [probe EXCEPT !.stage = "world", !.pos = grid_to_world(probe.cell)]
    /\ UNCHANGED world

\* world_to_grid applied to the position obtained
ProbeToGrid ==
    /\ probe.stage = "world"
    /\ probe' = [probe EXCEPT !.stage = "back", !.back = world_to_grid(probe.pos)]
    /\ UNCHANGED world

NextGrid == ProbeToWorld \/ ProbeToGrid

SpecGrid == InitGrid /\ [][NextGrid]_vars

(* ------------------------------------------------------------------------ *)
(* get_front_cells as a function of its input                                *)
(* ------------------------------------------------------------------------ *)
\* positions: inside a cell, on a cell border, left of and below the origin
FrontPositions == { <<x, y>> : x \in {-330, -1, 0, 165, 320, 959},
                               y \in {-1, 0, 470} }

\* headings: along the axes, dominated by either axis, diagonal, shorter than
\* 0.01, zero, and not of unit length
FrontHeadings ==
    { <<1000, 0>>, <<-1000, 0>>, <<0, 1000>>, <<0, -1000>>,
      <<707, 707>>, <<707, -707>>, <<-707, 707>>, <<-707, -707>>,
      <<800, 600>>, <<-800, 600>>, <<600, -800>>, <<-600, -800>>,
      <<0, 0>>, <<-6, -6>>, <<-10, 0>>, <<0, -9>>, <<-8, 7>>, <<-11, 0>>,
      <<-30, 40>>, <<2000, -2000>>, <<-1500, 100>> }

InitFront ==
    /\ ants = << >>
    /\ foods = << >>
    /\ markers = << >>
    /\ grid = << >>
    /\ nextId = 1
    /\ cmds = << >>
    /\ spawn_timer = 0
    /\ dt = 0
    /\ ran = {}
    /\ tick = 0
    /\ horizon = 0
    /\ pickups = 0
    /\ log = {}
    /\ probe \in { [stage |-> "in", pos |-> p, velocity |-> v, cells |-> << >>]
                    : p \in FrontPositions, v \in FrontHeadings }

\* get_front_cells applied to the drawn position and heading
ProbeFront ==
    /\ probe.stage = "in"
    /\ probe' = [probe EXCEPT !.stage = "front",
                              !.cells = get_front_cells(probe.pos, probe.velocity)]
    /\ UNCHANGED world

NextFront == ProbeFront

SpecFront == InitFront /\ [][NextFront]_vars

(* ------------------------------------------------------------------------ *)
(* follow_markers as a function of the ant, the grid and the markers         *)
(* ------------------------------------------------------------------------ *)
\* the cells of the three markers drawn: the ant's own cell and two next to it
FollowCells == << <<1, 1>>, <<2, 1>>, <<2, 2>> >>

\* what each of the three entities may be: absent, a live marker, or a marker
\* spawn_markers registered earlier in the frame and whose spawn is pending;
\* intensities are those of markers laid 0.4 s and 0.6 s into a state
FollowOptions ==
    { [status |-> "absent", marker_type |-> "Base", intensity |-> 0] }
      \cup [ status : {"live", "pending"}, marker_type : {"Base", "Food"},
             intensity : {99000, 98500} ]

DrawnMarker(k, o) ==
    [ intensity |-> o.intensity, marker_type |-> o.marker_type,
      grid_cell |-> FollowCells[k], timer |-> 0,
      pos |-> grid_to_world(FollowCells[k]),
      opacity |-> Unit, size |-> BASE_MARKER_SIZE * Unit ]

RECURSIVE DrawnGrid(_, _)
DrawnGrid(ch, k) ==
    IF k = 0 THEN << >>
    ELSE IF ch[k].status = "absent" THEN DrawnGrid(ch, k - 1)
    ELSE set_marker(DrawnGrid(ch, k - 1), FollowCells[k], ch[k].marker_type, k)

RECURSIVE DrawnCmds(_, _)
DrawnCmds(ch, k) ==
    IF k = 0 THEN << >>
    ELSE IF ch[k].status = "pending"
         THEN Append(DrawnCmds(ch, k - 1),
                     [op |-> "spawn_marker", e |-> k, marker |-> DrawnMarker(k, ch[k])])
    ELSE DrawnCmds(ch, k - 1)

InitFollow ==
    /\ \E st \in {"Searching", "Returning"} :
       \E v \in { <<1000, 0>>, <<0, 1000>>, <<-707, -707>> } :
          ants = << [ NewAnt(v) EXCEPT !.state = st, !.has_food = (st = "Returning"),
                                      !.pos = <<460, 460>>,
                                      !.color = IF st = "Returning" THEN "green" ELSE "red" ] >>
    /\ \E ch \in [1..Len(FollowCells) -> FollowOptions] :
          /\ markers = [ k \in { n \in 1..Len(FollowCells) : ch[n].status = "live" }
                           |-> DrawnMarker(k, ch[k]) ]
          /\ grid = DrawnGrid(ch, Len(FollowCells))
          /\ cmds = DrawnCmds(ch, Len(FollowCells))
    /\ foods = << >>
    /\ nextId = Len(FollowCells) + 1
    /\ spawn_timer = 0
    /\ dt \in DeltaSet
    /\ ran = {}
    /\ tick = 0
    /\ horizon = 0
    /\ pickups = 0
    /\ log = {}
    /\ probe = << >>

NextFollow == follow_markers

SpecFollow == InitFollow /\ [][NextFollow]_vars

(* ------------------------------------------------------------------------ *)
(* GridMap as an object: any sequence of its operations                      *)
(* ------------------------------------------------------------------------ *)
MapCells == { <<0, 0>>, <<1, 0>>, <<-1, 2>> }

MapEntities == {1, 2}

MarkerTypes == {"Base", "Food"}

\* what a call is remembered by: the operation, its arguments, the record of
\* the cell before the call, what the call returned (get_cell), the cells
\* written so far and whether a removal has met a cell without a record
MapCall(op, cell, marker_type, entity, got) ==
    [ op |-> op, cell |-> cell, marker_type |-> marker_type, entity |-> entity,
      had |-> HasCell(grid, cell), before |-> get_cell(grid, cell), got |-> got,
      written |-> IF op = "set_marker" THEN probe.written \cup {cell}
                                       ELSE probe.written,
      missed |-> probe.missed \/ (op = "remove_marker" /\ ~HasCell(grid, cell)) ]

\* GridMap::default()
InitMap ==
    /\ ants = << >>
    /\ foods = << >>
    /\ markers = << >>
    /\ grid = << >>
    /\ nextId = 1
    /\ cmds = << >>
    /\ spawn_timer = 0
    /\ dt = 0
    /\ ran = {}
    /\ tick = 0
    /\ horizon = 0
    /\ pickups = 0
    /\ log = {}
    /\ probe = [ op |-> "default", cell |-> <<0, 0>>, marker_type |-> "Base",
                 entity |-> None, had |-> FALSE, before |-> GridCellDataDefault,
                 got |-> GridCellDataDefault, written |-> {}, missed |-> FALSE ]

CallSetMarker ==
    \E cell \in MapCells : \E marker_type \in MarkerTypes : \E entity \in MapEntities :
        /\ grid' = set_marker(grid, cell, marker_type, entity)
        /\ probe' = MapCall("set_marker", cell, marker_type, entity, GridCellDataDefault)
        /\ UNCHANGED <<ants, foods, markers, nextId, cmds, spawn_timer, dt, ran, tick,
                       horizon, pickups, log>>

CallRemoveMarker ==
    \E cell \in MapCells : \E marker_type \in MarkerTypes :
        /\ grid' = remove_marker(grid, cell, marker_type)
        /\ probe' = MapCall("remove_marker", cell, marker_type, None, GridCellDataDefault)
        /\ UNCHANGED <<ants, foods, markers, nextId, cmds, spawn_timer, dt, ran, tick,
                       horizon, pickups, log>>

CallGetCell ==
    \E cell \in MapCells :
        /\ probe' = MapCall("get_cell", cell, "Base", None, get_cell(grid, cell))
        /\ UNCHANGED world

NextMap == CallSetMarker \/ CallRemoveMarker \/ CallGetCell

SpecMap == InitMap /\ [][NextMap]_vars

(* ------------------------------------------------------------------------ *)
(* Startup: main, Config::load, and the first frames of one ant's emission   *)
(* ------------------------------------------------------------------------ *)
\* values config.json may give marker_lifetime and marker_spawn_interval, and
\* whether the file can be read and parsed into Config at all
LifetimeValues == {-40, 0, 20, 40, 60}

IntervalValues == {20, 40, 60}

\* f32 division by the configured lifetime: x / 0.0 is an infinity or NaN
NegInfinity == -NaNC

IntensityFor(state_timer, lifetime) ==
    IF lifetime = 0
    THEN IF state_timer = 0 THEN NaNC ELSE NegInfinity
    ELSE INITIAL_INTENSITY * Unit - TruncDiv(state_timer * Unit, lifetime)

InitStart ==
    /\ ants = << >>
    /\ foods = << >>
    /\ markers = << >>
    /\ grid = << >>
    /\ nextId = 1
    /\ cmds = << >>
    /\ spawn_timer = 0
    /\ dt \in DeltaSet
    /\ ran = {}
    /\ tick = 0
    /\ horizon = MaxTicksStart
    /\ pickups = 0
    /\ log = {}
    /\ probe \in [ stage : {"file"}, parses : BOOLEAN,
                    marker_lifetime : LifetimeValues,
                    marker_spawn_interval : IntervalValues,
                    marker_timer : {0}, state_timer : {0}, laid : {"none"} ]

\* Config::load and the expect() in main: a panic on an unreadable or
\* malformed file, otherwise the values are taken as they are
ConfigLoad ==
    /\ probe.stage = "file"
    /\ probe' = [probe EXCEPT !.stage = IF probe.parses THEN "loaded" ELSE "panicked"]
    /\ UNCHANGED world

\* main: the App is built, the Config inserted, the Startup schedule run
MainRun ==
    /\ probe.stage = "loaded"
    /\ probe' = [probe EXCEPT !.stage = "running"]
    /\ UNCHANGED world

\* one frame of the Update schedule, as far as marker_lifetime is used:
\* spawn_markers for the initial ant (Timer::from_seconds panics on a negative
\* duration)
UpdateFrame ==
    /\ probe.stage = "running"
    /\ tick < horizon
    /\ tick' = tick + 1
    /\ dt' \in DeltaSet
    /\ LET marker_timer == probe.marker_timer + dt
           state_timer == probe.state_timer + dt
       IN  IF marker_timer >= probe.marker_spawn_interval
           THEN IF probe.marker_lifetime < 0
                THEN probe' = [probe EXCEPT !.stage = "panicked",
                                            !.marker_timer = marker_timer,
                                            !.state_timer = state_timer,
                                            !.laid = IntensityFor(state_timer,
                                                                  probe.marker_lifetime)]
                ELSE probe' = [probe EXCEPT !.marker_timer = 0,
                                            !.state_timer = state_timer,
                                            !.laid = IntensityFor(state_timer,
                                                                  probe.marker_lifetime)]
           ELSE probe' = [probe EXCEPT !.marker_timer = marker_timer,
                                       !.state_timer = state_timer]
    /\ UNCHANGED <<ants, foods, markers, grid, nextId, cmds, spawn_timer, ran, horizon,
                   pickups, log>>

NextStart == ConfigLoad \/ MainRun \/ UpdateFrame

SpecStart == InitStart /\ [][NextStart]_vars

(* ------------------------------------------------------------------------ *)
(* get_nearby_cells as a function of its input                               *)
(* ------------------------------------------------------------------------ *)
\* positions: inside a cell, on borders and corners, left of and below the origin
NearPositions == { <<x, y>> : x \in {-330, -1, 0, 165, 320, 959},
                              y \in {-1, 0, 160, 470} }

\* radii: negative, zero, below half a cell, half a cell, just above half a
\* diagonal, one cell, between one and two cells, two cells
NearRadii == {-100, 0, 50, 160, 227, 320, 400, 640}

InitNear ==
    /\ ants = << >>
    /\ foods = << >>
    /\ markers = << >>
    /\ grid = << >>
    /\ nextId = 1
    /\ cmds = << >>
    /\ spawn_timer = 0
    /\ dt = 0
    /\ ran = {}
    /\ tick = 0
    /\ horizon = 0
    /\ pickups = 0
    /\ log = {}
    /\ probe \in { [stage |-> "in", pos |-> p, radius |-> r, cells |-> << >>]
                    : p \in NearPositions, r \in NearRadii }

\* get_nearby_cells applied to the drawn position and radius
ProbeNear ==
    /\ probe.stage = "in"
    /\ probe' = [probe EXCEPT !.stage = "near",
                              !.cells = get_nearby_cells(probe.pos, probe.radius)]
    /\ UNCHANGED world

NextNear == ProbeNear

SpecNear == InitNear /\ [][NextNear]_vars

(* ------------------------------------------------------------------------ *)
(* The two scans of a frame on worlds with equal candidates                  *)
(* ------------------------------------------------------------------------ *)
\* cells of the three markers drawn; entity k + 2 lies in TieCells[k], so the
\* order of the entities is not the order in which front cells are scanned
TieCells == << <<2, 1>>, <<1, 1>>, <<1, 2>> >>

TieOptions ==
    { [status |-> "absent", marker_type |-> "Base", intensity |-> 0] }
      \cup [ status : {"live"}, marker_type : {"Base", "Food"},
             intensity : {99000, 98500} ]

\* cells of the two food sources drawn, in table order: the centres of the
\* first four are equally far from the base centre, where the ant stands
TieFoodCells == { <<0, 0>>, <<1, 0>>, <<1, 1>>, <<0, 1>>, <<2, 1>> }

TieMarker(k, o) ==
    [ intensity |-> o.intensity, marker_type |-> o.marker_type,
      grid_cell |-> TieCells[k], timer |-> 0,
      pos |-> grid_to_world(TieCells[k]),
      opacity |-> Unit, size |-> BASE_MARKER_SIZE * Unit ]

RECURSIVE TieGrid(_, _)
TieGrid(ch, k) ==
    IF k = 0 THEN << >>
    ELSE IF ch[k].status = "absent" THEN TieGrid(ch, k - 1)
    ELSE set_marker(TieGrid(ch, k - 1), TieCells[k], ch[k].marker_type, k + 2)

InitTie ==
    /\ \E st \in {"Searching", "Returning"} :
       \E v \in { <<1000, 0>>, <<0, 1000>>, <<-707, -707>> } :
          ants = << [ NewAnt(v) EXCEPT !.state = st, !.has_food = (st = "Returning"),
                                      !.color = IF st = "Returning" THEN "green" ELSE "red" ] >>
    /\ \E ch \in [1..Len(TieCells) -> TieOptions] :
          /\ markers = [ e \in { n + 2 : n \in { k \in 1..Len(TieCells) : ch[k].status = "live" } }
                           |-> TieMarker(e - 2, ch[e - 2]) ]
          /\ grid = TieGrid(ch, Len(TieCells))
    /\ \E a \in TieFoodCells : \E b \in TieFoodCells \ {a} :
          foods = FoodsAt(<<a, b>>, 0)
    /\ nextId = Len(TieCells) + 3
    /\ cmds = << >>
    /\ spawn_timer = 0
    /\ dt \in DeltaSet
    /\ ran = {}
    /\ tick = 0
    /\ horizon = 0
    /\ pickups = 0
    /\ log = {}
    /\ probe = << >>

NextTie == follow_markers \/ move_ants

SpecTie == InitTie /\ [][NextTie]_vars

(* ------------------------------------------------------------------------ *)
(* Properties                                                                *)
(* ------------------------------------------------------------------------ *)
\* the frame is over: every system has run and the deferred commands are applied
Boundary == "apply_deferred" \in ran

\* the step just taken is the run of system s
Runs(s) == s \notin ran /\ s \in ran'

SlotRefs == { grid[c].base_marker : c \in DOMAIN grid }
               \cup { grid[c].food_marker : c \in DOMAIN grid }

PendingSpawns == { cmds[k].e : k \in { n \in DOMAIN cmds : cmds[n].op = "spawn_marker" } }

\* C1: at every frame boundary, for every cell c and marker type t at most one
\* live marker entity has grid_cell = c and marker_type = t.
C1_OneLiveMarkerPerSlot ==
    Boundary =>
        \A e1 \in DOMAIN markers : \A e2 \in DOMAIN markers :
            ( /\ markers[e1].grid_cell = markers[e2].grid_cell
              /\ markers[e1].marker_type = markers[e2].marker_type ) => e1 = e2

\* C2: an ant that is Searching without food and, at the food collision check,
\* within the pickup threshold of a food source that has something left is, at
\* the end of that frame, Returning with food, both timers 0 and its heading
\* the negation of the heading it had before the check.
C2_PickupOnContact ==
    Boundary =>
        \A ev \in log :
            ev.kind = "near_food" =>
                /\ ants[ev.ant].state = "Returning"
                /\ ants[ev.ant].has_food
                /\ ants[ev.ant].state_timer = 0
                /\ ants[ev.ant].marker_timer = 0
                /\ ants[ev.ant].velocity = VNeg(ev.before)

Quantity(fs, id) ==
    LET hit == { j \in DOMAIN fs : fs[j].id = id }
    IN  IF hit = {} THEN -1 ELSE fs[CHOOSE j \in hit : TRUE].quantity

FoodIds(fs) == { fs[j].id : j \in DOMAIN fs }

C5_StartupQuantity ==
    /\ \A j \in DOMAIN foods :
          /\ foods[j].has_quantity
          /\ foods[j].quantity \in 1..food_quantity
    /\ pickups <= Len(food_locations) * food_quantity

\* C6: a marker whose lifetime timer expired left its own (grid_cell,
\* marker_type) slot empty when it was removed, is destroyed by the end of the
\* frame, and no grid slot refers to it; every reference the grid holds is to
\* a live marker or to one whose spawn is pending.
C6_ExpiryClearsSlot ==
    /\ \A ev \in log :
          ev.kind = "expire" =>
              /\ ev.slot_after = None
              /\ ev.e \notin SlotRefs
              /\ Boundary => ev.e \notin DOMAIN markers
    /\ \A e \in SlotRefs \ {None} : e \in DOMAIN markers \/ e \in PendingSpawns

\* a marker has expired in the frame that just ended
C6_Witness ==
    /\ Boundary
    /\ \E ev \in log : ev.kind = "expire"

\* the emissions of this frame into the slot of ev
SameSlotEmits(ev) ==
    { x \in log : x.kind = "emit" /\ x.cell = ev.cell /\ x.mtype = ev.mtype }

\* C7: when an ant emitted a marker into a slot holding a marker that does not
\* expire in that frame, then at the end of the frame the slot holds the marker
\* emitted last into it, that marker is live, it is the only live marker of
\* that cell and type, and the previous occupant is destroyed.
C7_ReplacementLeavesNewMarker ==
    Boundary =>
        \A ev \in log :
            ( /\ ev.kind = "emit"
              /\ ev.old # None
              /\ ~\E x \in log : x.kind = "expire" /\ x.e = ev.old ) =>
                LET last == CHOOSE x \in SameSlotEmits(ev) :
                                \A y \in SameSlotEmits(ev) : y.e <= x.e
                IN  /\ Slot(get_cell(grid, ev.cell), ev.mtype) = last.e
                    /\ last.e \in DOMAIN markers
                    /\ ev.old \notin DOMAIN markers
                    /\ \A m \in DOMAIN markers :
                          ( markers[m].grid_cell = ev.cell
                            /\ markers[m].marker_type = ev.mtype ) => m = last.e

\* C8: world_to_grid(grid_to_world(c)) = c, with grid_to_world(c) = c*32 + 16
\* in each component.
C8_RoundTrip ==
    /\ probe.stage \in {"world", "back"} =>
          probe.pos = << probe.cell[1] * 32 * PosScale + 16 * PosScale,
                         probe.cell[2] * 32 * PosScale + 16 * PosScale >>
    /\ probe.stage = "back" => probe.back = probe.cell

\* the round trip of a cell with negative coordinates
C8_Witness ==
    /\ probe.stage = "back"
    /\ probe.cell[1] < 0
    /\ probe.cell[2] < 0

Phase(s) ==
    IF s = "follow_markers" THEN 1
    ELSE IF s = "move_ants" THEN 2
    ELSE IF s = "keep_ants_in_bounds" THEN 3
    ELSE IF s = "check_food_collision" THEN 4
    ELSE IF s = "check_base_collision" THEN 5
    ELSE IF s = "spawn_markers" THEN 6
    ELSE 7

Phased == Systems \ {"spawn_ants"}

\* C10: within a frame the systems run in the order follow_markers, move_ants,
\* keep_ants_in_bounds, check_food_collision, check_base_collision,
\* spawn_markers, update_marker_visuals: a system that has run never belongs
\* to a later phase than one still to run.
C10_PhaseOrder ==
    \A s \in Phased \cap ran : \A t \in Phased \ ran : Phase(s) < Phase(t)

\* the ants whose state the step just taken changed
Transitioned == { i \in DOMAIN ants : i \in DOMAIN ants' /\ ants'[i].state # ants[i].state }

FoodInFront(ant) ==
    \E j \in DOMAIN foods :
        world_to_grid(foods[j].pos) \in SeqToSet(get_front_cells(ant.pos, ant.velocity))

C13_ToroidalWrap ==
    [][ Runs("keep_ants_in_bounds") =>
          /\ DOMAIN ants' = DOMAIN ants
          /\ \A i \in DOMAIN ants :
                LET x == ants[i].pos[1]
                    y == ants[i].pos[2]
                    W == map_size[1] * 32 * PosScale
                    H == map_size[2] * 32 * PosScale
                IN  /\ x < 0 => ants'[i].pos[1] = W
                    /\ x > W => ants'[i].pos[1] = 0
                    /\ (0 <= x /\ x <= W) => ants'[i].pos[1] = x
                    /\ y < 0 => ants'[i].pos[2] = H
                    /\ y > H => ants'[i].pos[2] = 0
                    /\ (0 <= y /\ y <= H) => ants'[i].pos[2] = y
                    /\ ants'[i].pos[1] \in 0..W
                    /\ ants'[i].pos[2] \in 0..H
                    /\ ants'[i] = [ants[i] EXCEPT !.pos = ants'[i].pos] ]_vars

\* an ant that left the map on the left has been put on the right edge
C13_Witness ==
    /\ "keep_ants_in_bounds" \in ran
    /\ "move_ants" \in ran
    /\ \E i \in DOMAIN ants :
          /\ ants[i].pos[1] = map_width_pixels
          /\ ants[i].velocity[1] < 0
          /\ ants[i].pos[2] \in 1..(map_height_pixels - 1)

\* sign(a) as a step: -1, 0 or 1
Sign(a) == IF a < 0 THEN -1 ELSE IF a > 0 THEN 1 ELSE 0

\* the offset the dominant axis of heading h gives; a heading no longer than
\* 0.01 counts as (1, 0)
DominantOffset(h) ==
    LET v == IF h[1] * h[1] + h[2] * h[2] <= 10 * 10 THEN <<Unit, 0>> ELSE h
    IN  IF Abs(v[1]) > Abs(v[2]) THEN <<Sign(v[1]), 0>>
        ELSE IF Abs(v[2]) > Abs(v[1]) THEN <<0, Sign(v[2])>>
        ELSE <<Sign(v[1]), Sign(v[2])>>

\* C14: get_front_cells(pos, heading) returns exactly the 9 cells of the 3x3
\* block centred on current_cell + offset, offset = (sign x, 0) when |x| > |y|,
\* (0, sign y) when |y| > |x|, (sign x, sign y) when equal; a heading of
\* length <= 0.01 counts as (1, 0).
C14_FrontCells ==
    probe.stage = "front" =>
        LET c == << probe.pos[1] \div (32 * PosScale), probe.pos[2] \div (32 * PosScale) >>
            o == DominantOffset(probe.velocity)
        IN  /\ Len(probe.cells) = 9
            /\ SeqToSet(probe.cells) =
                  { <<c[1] + o[1] + dx, c[2] + o[2] + dy>> : dx \in -1..1, dy \in -1..1 }

\* the front cells of a diagonal heading from a position left of the origin
C14_Witness ==
    /\ probe.stage = "front"
    /\ probe.pos[1] < 0
    /\ Abs(probe.velocity[1]) = Abs(probe.velocity[2])
    /\ probe.velocity[1] < -10
    /\ probe.velocity[2] > 10

\* the ants whose marker_timer, advanced by dt, reaches the interval
Emitters == { i \in DOMAIN ants : ants[i].marker_timer + dt >= marker_spawn_interval }

\* the markers whose spawn the step just taken queued
NewSpawns ==
    { cmds'[k] : k \in { n \in (Len(cmds) + 1)..Len(cmds') : cmds'[n].op = "spawn_marker" } }

LaidType(ant) == IF ant.state = "Returning" THEN "Food" ELSE "Base"

CellUnder(ant) == << ant.pos[1] \div (32 * PosScale), ant.pos[2] \div (32 * PosScale) >>

Followed(ant) == IF ant.state = "Searching" THEN "Food" ELSE "Base"

\* the live markers of the followed type registered in a front cell of the ant
Candidates(ant) ==
    { e \in DOMAIN markers :
        /\ markers[e].marker_type = Followed(ant)
        /\ \E c \in SeqToSet(get_front_cells(ant.pos, ant.velocity)) :
              c \in DOMAIN grid /\ Slot(grid[c], Followed(ant)) = e }

\* the heading after blending towards marker e
BlendedTowards(ant, e) ==
    LET k == Influence(markers[e].intensity)
    IN  Normalize(Blend(ant.velocity, Normalize(VSub(markers[e].pos, ant.pos)),
                        Unit - k, k))

\* C16: follow_markers considers only live markers of the type the ant does
\* not lay (Searching: Food, Returning: Base) registered in one of its 9
\* front cells, blends the heading towards one of maximum intensity among
\* them, and leaves the ant unchanged when there is none.
C16_FollowStrongest ==
    [][ Runs("follow_markers") =>
          \A i \in DOMAIN ants :
              IF Candidates(ants[i]) = {}
              THEN ants'[i] = ants[i]
              ELSE \E e \in Candidates(ants[i]) :
                      /\ \A f \in Candidates(ants[i]) :
                            markers[f].intensity <= markers[e].intensity
                      /\ ants'[i] = [ants[i] EXCEPT
                                        !.velocity = BlendedTowards(ants[i], e)] ]_vars

\* the ant followed a marker although a weaker one of the followed type was
\* registered in the cell scanned before it, with a marker of the other type live
C16_Witness ==
    /\ "follow_markers" \in ran
    /\ \E ev \in log :
          /\ ev.kind = "follow"
          /\ \E w \in DOMAIN markers :
                /\ w < ev.e
                /\ markers[w].marker_type = markers[ev.e].marker_type
                /\ markers[w].intensity < markers[ev.e].intensity
          /\ \E o \in DOMAIN markers :
                markers[o].marker_type # markers[ev.e].marker_type

\* the food sources whose cell is one of the ant's front cells
FrontFoods(ant) ==
    { j \in DOMAIN foods :
        world_to_grid(foods[j].pos) \in SeqToSet(get_front_cells(ant.pos, ant.velocity)) }

NewDespawns ==
    { cmds'[k].e : k \in { n \in (Len(cmds) + 1)..Len(cmds') : cmds'[n].op = "despawn" } }

Registered(m) ==
    Slot(get_cell(grid, markers[m].grid_cell), markers[m].marker_type) = m

\* C21: every marker is removed by its own expiry and only then: at every
\* frame boundary a marker that is still alive (hence neither replaced nor
\* expired) has accumulated less than marker_lifetime, so none outlives
\* marker_lifetime plus one frame, and it is still registered in its slot of
\* the grid; it is unregistered and destroyed in the frame of its expiry, not
\* earlier and not later.
C21_RemovedExactlyAtExpiry ==
    Boundary =>
        \A m \in DOMAIN markers :
            /\ markers[m].timer < marker_lifetime
            /\ Registered(m)

OtherType(marker_type) == IF marker_type = "Base" THEN "Food" ELSE "Base"

\* the references a grid holds outside the slot (cell, marker_type)
RefsOutside(g, cell, marker_type) ==
    { Slot(g[ct[1]], ct[2]) :
        ct \in { x \in (DOMAIN g) \X MarkerTypes : x # <<cell, marker_type>> } }

AllRefs(g) == { g[c].base_marker : c \in DOMAIN g } \cup { g[c].food_marker : c \in DOMAIN g }

\* C22: a call set_marker(cell, type, e) makes the slot (cell, type) hold e
\* whatever it held, leaves the other slot of the cell (empty if the cell had
\* no record) and every other cell as they were, and keeps no trace of the
\* reference it overwrote: the grid holds e and what the other slots held.
C22_SetMarkerOverwrites ==
    [][ probe'.op = "set_marker" =>
          LET cell == probe'.cell
              t == probe'.marker_type
          IN  /\ DOMAIN grid' = DOMAIN grid \cup {cell}
              /\ Slot(grid'[cell], t) = probe'.entity
              /\ Slot(grid'[cell], OtherType(t)) =
                    IF cell \in DOMAIN grid THEN Slot(grid[cell], OtherType(t)) ELSE None
              /\ \A c \in DOMAIN grid \ {cell} : grid'[c] = grid[c]
              /\ AllRefs(grid') \ {None} =
                    ({probe'.entity} \cup RefsOutside(grid, cell, t)) \ {None}
      ]_vars

\* the slot held another entity, which the call has overwritten, while the
\* other slot of the cell is occupied
C22_Witness ==
    /\ probe.op = "set_marker"
    /\ Slot(probe.before, probe.marker_type) \notin {None, probe.entity}
    /\ Slot(grid[probe.cell], probe.marker_type) = probe.entity
    /\ Slot(grid[probe.cell], OtherType(probe.marker_type)) # None

\* C23: a call remove_marker(cell, type) empties the slot (cell, type) and
\* leaves the other slot and all other cells unchanged; on a cell without a
\* record, or an empty slot, it changes nothing and creates no record; and
\* get_cell leaves the grid alone and reports no marker for a cell that was
\* never written.
C23_RemoveMarkerClears ==
    [][ /\ probe'.op = "remove_marker" =>
              LET cell == probe'.cell
                  t == probe'.marker_type
              IN  /\ DOMAIN grid' = DOMAIN grid
                  /\ \A c \in DOMAIN grid \ {cell} : grid'[c] = grid[c]
                  /\ cell \in DOMAIN grid =>
                        /\ Slot(grid'[cell], t) = None
                        /\ Slot(grid'[cell], OtherType(t)) = Slot(grid[cell], OtherType(t))
                  /\ (cell \notin DOMAIN grid \/ Slot(get_cell(grid, cell), t) = None)
                        => grid' = grid
        /\ probe'.op = "get_cell" =>
              /\ grid' = grid
              /\ probe'.cell \notin probe'.written =>
                    /\ probe'.got.base_marker = None
                    /\ probe'.got.food_marker = None
      ]_vars

\* a removal has emptied an occupied slot next to an occupied one, after an
\* earlier removal met a cell without a record
C23_Witness ==
    /\ probe.op = "remove_marker"
    /\ probe.missed
    /\ probe.had
    /\ Slot(probe.before, probe.marker_type) # None
    /\ Slot(grid[probe.cell], probe.marker_type) = None
    /\ Slot(grid[probe.cell], OtherType(probe.marker_type)) # None

\* what the step just taken took from the sources j..Len(foods)
RECURSIVE TakenFrom(_)
TakenFrom(j) ==
    IF j > Len(foods) THEN 0
    ELSE (foods[j].quantity - foods'[j].quantity) + TakenFrom(j + 1)

\* the ants the step just taken turned from Searching to Returning
PickedUp == { i \in DOMAIN ants : ants[i].state = "Searching" /\ ants'[i].state = "Returning" }

C25_InvalidLifetimeRejected ==
    probe.marker_lifetime <= 0 =>
        /\ probe.stage # "running"
        /\ tick = 0

\* the centre of a cell lies within radius r of p (all in position units)
CentreWithin(cell, p, r) ==
    LET cx == cell[1] * 320 + 160
        cy == cell[2] * 320 + 160
    IN  r >= 0 /\ (cx - p[1]) * (cx - p[1]) + (cy - p[2]) * (cy - p[2]) <= r * r

\* C26: get_nearby_cells(pos, radius) returns, each once, exactly the cells
\* whose centre lies within radius of pos; the cells are sought in a window
\* wider than the scanned square, so a qualifying cell outside the square
\* would show up as missing.
C26_NearbyCellsExact ==
    probe.stage = "near" =>
        /\ SeqToSet(probe.cells) =
              { c \in CellRange \X CellRange : CentreWithin(c, probe.pos, probe.radius) }
        /\ Cardinality(SeqToSet(probe.cells)) = Len(probe.cells)

\* a radius of more than one cell, from a position left of the origin: some
\* scanned cells qualify and some do not
C26_Witness ==
    /\ probe.stage = "near"
    /\ probe.radius = 400
    /\ probe.pos[1] < 0
    /\ Len(probe.cells) > 1
    /\ Len(probe.cells) < 25

\* a heading of length 1, up to the rounding of the last digits
UnitLength(v) ==
    /\ v[1] # NaNC
    /\ v[2] # NaNC
    /\ v[1] * v[1] + v[2] * v[2] >= 995 * 995
    /\ v[1] * v[1] + v[2] * v[2] <= 1005 * 1005

\* C27: every ant's heading has unit length at all times, hence after every
\* blend, perturbation, replacement by the food direction and U-turn, also
\* when the ant stands exactly on the marker, food or base it steers toward.
C27_HeadingUnitLength ==
    \A i \in DOMAIN ants : UnitLength(ants[i].velocity)

\* cell c is scanned before cell d: dx is the outer loop, dy the inner one
ScannedBefore(c, d) == c[1] < d[1] \/ (c[1] = d[1] /\ c[2] < d[2])

\* C28: among equal candidates the first encountered wins: follow_markers
\* follows, of the candidates of maximum intensity, the one whose cell comes
\* first in the scan of the front cells, and move_ants steers a Searching ant
\* at, of the front-cell sources at minimum distance, the first in table order.
C28_FirstWinsTies ==
    [][ /\ Runs("follow_markers") =>
              \A i \in DOMAIN ants :
                  Candidates(ants[i]) # {} =>
                      \E e \in Candidates(ants[i]) :
                          /\ \A f \in Candidates(ants[i]) \ {e} :
                                \/ markers[f].intensity < markers[e].intensity
                                \/ /\ markers[f].intensity = markers[e].intensity
                                   /\ ScannedBefore(markers[e].grid_cell, markers[f].grid_cell)
                          /\ ants'[i].velocity = BlendedTowards(ants[i], e)
                          /\ [kind |-> "follow", ant |-> i, e |-> e] \in log'
        /\ Runs("move_ants") =>
              \A i \in DOMAIN ants :
                  (ants[i].state = "Searching" /\ FrontFoods(ants[i]) # {}) =>
                      \E j \in FrontFoods(ants[i]) :
                          /\ \A k \in FrontFoods(ants[i]) \ {j} :
                                \/ Dist2(ants[i].pos, foods[j].pos)
                                     < Dist2(ants[i].pos, foods[k].pos)
                                \/ /\ Dist2(ants[i].pos, foods[j].pos)
                                        = Dist2(ants[i].pos, foods[k].pos)
                                   /\ j < k
                          /\ ants'[i].velocity = Normalize(VSub(foods[j].pos, ants[i].pos))
                          /\ \E ev \in log' :
                                ev.kind = "steer" /\ ev.ant = i /\ ev.food = foods[j].id
      ]_vars

\* both scans met a tie: the marker followed has an equal rival with a
\* smaller entity id in a cell scanned later, and the ant, from the base
\* centre, was steered at the first of two equally distant sources
C28_Witness ==
    /\ ran = {"follow_markers", "move_ants"}
    /\ \E ev \in log :
          /\ ev.kind = "follow"
          /\ \E f \in DOMAIN markers :
                /\ f < ev.e
                /\ markers[f].marker_type = markers[ev.e].marker_type
                /\ markers[f].intensity = markers[ev.e].intensity
    /\ \E ev \in log :
          /\ ev.kind = "steer"
          /\ ev.food = 1
          /\ Len(foods) = 2
          /\ Dist2(base_center, foods[1].pos) = Dist2(base_center, foods[2].pos)
          /\ foods[1].pos # foods[2].pos

\* an ant as it is when it comes into being
Fresh(ant) ==
    /\ ant.state = "Searching"
    /\ ant.has_food = FALSE
    /\ ant.direction_change_timer = 0
    /\ ant.marker_timer = 0
    /\ ant.state_timer = 0
    /\ UnitLength(ant.velocity)
    /\ ant.pos = << (base_location[1] + 1) * 320, (base_location[2] + 1) * 320 >>

\* C29: every ant starts Searching without food, its three timers 0, with a
\* heading of unit length, at the position of the base: the ants of the
\* initial state, and every ant that enters the world later.
C29_AntsStartFresh ==
    /\ \A i \in DOMAIN ants : Fresh(ants[i])
    /\ [][ \A i \in DOMAIN ants' \ DOMAIN ants : Fresh(ants'[i]) ]_vars

\* the spawner's first ant has just entered the world, while the initial ant
\* has moved away from the base
C29_Witness ==
    /\ "apply_deferred" \in ran
    /\ Len(ants) = initial_ant_count + 1
    /\ Fresh(ants[Len(ants)])
    /\ ants[1].pos # ants[Len(ants)].pos
    /\ ants[1].state_timer > 0

C31_LiveMarkersRegistered ==
    Boundary => \A m \in DOMAIN markers : Registered(m)

\* the entities the grid refers to, with the slot that refers to each
GridRefs ==
    { r \in [cell : DOMAIN grid, mtype : MarkerTypes, e : 1..nextId] :
          Slot(grid[r.cell], r.mtype) = r.e }

\* C32: at every frame boundary every non-empty slot (cell, type) of the grid
\* refers to a live marker whose grid_cell is cell and whose marker_type is
\* type; the grid keeps no reference to a replaced or expired marker.
C32_SlotsReferToLiveMarkers ==
    Boundary =>
        \A r \in GridRefs :
            /\ r.e \in DOMAIN markers
            /\ markers[r.e].grid_cell = r.cell
            /\ markers[r.e].marker_type = r.mtype

\* a frame ended in which a marker was replaced: the old marker is gone and
\* the slot refers to the new one
C32_Witness ==
    /\ Boundary
    /\ \E ev \in log :
          /\ ev.kind = "emit"
          /\ ev.old # None
          /\ ev.old \notin DOMAIN markers
          /\ [cell |-> ev.cell, mtype |-> ev.mtype, e |-> ev.e] \in GridRefs

\* the despawn commands queued for marker entity m in the current frame
DespawnsOf(m) == { k \in DOMAIN cmds : cmds[k].op = "despawn" /\ cmds[k].e = m }

\* C33: no marker entity is issued more than one despawn command: a marker
\* is despawned by its replacement or by its expiry, never by both, also when
\* both fall in the same frame.
C33_OneDespawnPerMarker ==
    \A m \in 1..nextId : Cardinality(DespawnsOf(m)) <= 1

\* what the sources present hold together
RECURSIVE Stock(_, _)
Stock(fs, j) == IF j > Len(fs) THEN 0 ELSE fs[j].quantity + Stock(fs, j + 1)

\* the ants the food check would match to source j at their present position
InReach(j) ==
    { i \in DOMAIN ants :
        /\ ants[i].state = "Searching"
        /\ ~ants[i].has_food
        /\ DistanceBelow(ants[i].pos, foods[j].pos, FOOD_COLLISION_THRESHOLD) }

C36_FrontCellsShape ==
    probe.stage = "front" =>
        LET c == << probe.pos[1] \div CellLen, probe.pos[2] \div CellLen >>
            o == DominantOffset(probe.velocity)
            S == SeqToSet(probe.cells)
        IN  /\ Len(probe.cells) = 9
            /\ \A a, b \in DOMAIN probe.cells : a # b => probe.cells[a] # probe.cells[b]
            /\ c \in S
            /\ <<c[1] - 2 * o[1], c[2] - 2 * o[2]>> \notin S
            /\ o[1] # 0 => <<c[1] - 2 * o[1], c[2]>> \notin S
            /\ o[2] # 0 => <<c[1], c[2] - 2 * o[2]>> \notin S

\* the front cells of a heading dominated by the y axis and pointing down,
\* taken from a position on a cell border
C36_Witness ==
    /\ probe.stage = "front"
    /\ probe.pos[1] % CellLen = 0
    /\ probe.velocity[2] < -10
    /\ Abs(probe.velocity[2]) > Abs(probe.velocity[1])
    /\ Len(probe.cells) = 9

\* every ant lies inside the closed map rectangle, as keep_ants_in_bounds
\* leaves it
AntsWrapped ==
    \A i \in DOMAIN ants :
        /\ ants[i].pos[1] \in 0..map_width_pixels
        /\ ants[i].pos[2] \in 0..map_height_pixels

InsideMap(cell) ==
    /\ 0 <= cell[1] /\ cell[1] < map_size[1]
    /\ 0 <= cell[2] /\ cell[2] < map_size[2]

\* C37: every marker emitted has its grid_cell inside the map,
\* 0 <= x < map_size.0 and 0 <= y < map_size.1, when the ants have been
\* wrapped by keep_ants_in_bounds before spawn_markers emits.
C37_MarkersInsideMap ==
    [][ (Runs("spawn_markers") /\ AntsWrapped) =>
            \A c \in NewSpawns : InsideMap(c.marker.grid_cell) ]_vars

AntSpawns(queue) == { k \in DOMAIN queue : queue[k].op = "spawn_ant" }

\* C39: the number of ants never decreases and no ant is replaced; spawn_ants
\* queues one new ant exactly when spawn_rate > 0 and its repeating timer
\* completes a period in this frame (the base always exists), and nothing
\* else queues one; the ants queued join at the end of the frame; with
\* spawn_rate <= 0 the number of ants stays initial_ant_count for ever.
C39_AntsOnlyAdded ==
    /\ [](ConfigSpawnRate <= 0 => Len(ants) = initial_ant_count)
    /\ [][ /\ Len(ants') >= Len(ants)
           /\ IF Runs("spawn_ants")
              THEN Cardinality(AntSpawns(cmds')) =
                      IF ConfigSpawnRate > 0 /\ spawn_timer + dt >= ConfigSpawnRate
                      THEN 1 ELSE 0
              ELSE IF Runs("apply_deferred")
              THEN /\ Len(ants') = Len(ants) + Cardinality(AntSpawns(cmds))
                   /\ \A i \in DOMAIN ants : ants'[i] = ants[i]
              ELSE /\ Len(ants') = Len(ants)
                   /\ Cardinality(AntSpawns(cmds')) = Cardinality(AntSpawns(cmds)) ]_vars

\* a frame ended in which the spawn timer completed a period: the colony has
\* grown by one ant, and a frame has passed since in which it did not grow
C39_Witness ==
    /\ Boundary
    /\ ConfigSpawnRate > 0
    /\ spawn_timer = dt
    /\ Len(ants) = initial_ant_count + 1

====
